---- MODULE Spec2Model ----
(***************************************************************************)
(* Model of scripts/fixSpriteBackgrounds.py: the two pixel classifiers,    *)
(* the connected-component background segmentation of                      *)
(* fix_sprite_background and the batch driver main().                      *)
(*                                                                         *)
(* A pixel is addressed as <<y, x>> (row, column), as the numpy arrays of  *)
(* the script are.  A mask is the set of pixels where the boolean array is *)
(* True.                                                                   *)
(***************************************************************************)
EXTENDS Integers, Sequences, FiniteSets

VARIABLES
    disk,           \* the sprite files, in the order of SPRITES_TO_FIX
    orig,           \* the files as they were before the first run (history)
    idx,            \* main(): position of the for loop in SPRITES_TO_FIX
    success_count,  \* main(): success_count
    fail_count,     \* main(): fail_count
    pc,             \* main(): "loop", "done" (summary printed), "crashed"
    run,            \* how many times the script has been started
    outcome,        \* per file: what the current run printed about it
    results,        \* per file: what each completed fix computed (history)
    px,             \* classifier run: the (r, g, b) argument
    verdict         \* classifier run: the two return values, or "none"

vars == <<disk, orig, idx, success_count, fail_count, pc, run, outcome,
          results, px, verdict>>

(***************************************************************************)
(* Bounds of the model                                                     *)
(***************************************************************************)
MaxW == 3
MaxH == 8
MaxMarks == 2
MaxRuns == 2
MaxFiles == 3
TallW == 3
TallH == 404
Spread == 10

(***************************************************************************)
(* Arithmetic helpers (Python builtins)                                    *)
(***************************************************************************)
Abs(n) == IF n < 0 THEN -n ELSE n

Max2(a, b) == IF a >= b THEN a ELSE b

Min2(a, b) == IF a <= b THEN a ELSE b

Max3(a, b, c) == Max2(a, Max2(b, c))

(***************************************************************************)
(* Pixel classifiers                                                       *)
(***************************************************************************)
DarkLimit == 25
GrayLimit == 40
GrayDiff == 10
CheckTol == 8

\* Faulty variant: the very-dark rule compares with <= instead of <.
is_dark_background_le(r, g, b) ==
    IF r <= DarkLimit /\ g <= DarkLimit /\ b <= DarkLimit THEN TRUE
    ELSE IF Max3(r, g, b) < GrayLimit /\ Abs(r - g) < GrayDiff
            /\ Abs(g - b) < GrayDiff THEN TRUE
    ELSE FALSE

is_dark_background(r, g, b) ==
    IF r < DarkLimit /\ g < DarkLimit /\ b < DarkLimit THEN TRUE
    ELSE IF Max3(r, g, b) < GrayLimit /\ Abs(r - g) < GrayDiff
            /\ Abs(g - b) < GrayDiff THEN TRUE
    ELSE FALSE

\* Faulty variant: the tolerance test is inclusive (<= 8).
is_checkered_bg_le(r, g, b) ==
    IF Abs(r - 204) <= CheckTol /\ Abs(g - 204) <= CheckTol
       /\ Abs(b - 204) <= CheckTol THEN TRUE
    ELSE IF Abs(r - 238) <= CheckTol /\ Abs(g - 238) <= CheckTol
            /\ Abs(b - 238) <= CheckTol THEN TRUE
    ELSE IF Abs(r - 153) <= CheckTol /\ Abs(g - 153) <= CheckTol
            /\ Abs(b - 153) <= CheckTol THEN TRUE
    ELSE IF Abs(r - 170) <= CheckTol /\ Abs(g - 170) <= CheckTol
            /\ Abs(b - 170) <= CheckTol THEN TRUE
    ELSE FALSE

is_checkered_bg(r, g, b) ==
    IF Abs(r - 204) < CheckTol /\ Abs(g - 204) < CheckTol
       /\ Abs(b - 204) < CheckTol THEN TRUE
    ELSE IF Abs(r - 238) < CheckTol /\ Abs(g - 238) < CheckTol
            /\ Abs(b - 238) < CheckTol THEN TRUE
    ELSE IF Abs(r - 153) < CheckTol /\ Abs(g - 153) < CheckTol
            /\ Abs(b - 153) < CheckTol THEN TRUE
    ELSE IF Abs(r - 170) < CheckTol /\ Abs(g - 170) < CheckTol
            /\ Abs(b - 170) < CheckTol THEN TRUE
    ELSE FALSE

(***************************************************************************)
(* Raster images.  A file's image is a record [w, h, rgb, alpha]: rgb and  *)
(* alpha are functions over the pixels, img_array[y, x, :3] and            *)
(* img_array[y, x, 3].                                                     *)
(***************************************************************************)
Pixels(w, h) == (0 .. h - 1) \X (0 .. w - 1)

\* Faulty variant: a transparent pixel is never a dark candidate (mask reads alpha).
DarkMaskOpaqueOnly(img) ==
    {p \in Pixels(img.w, img.h) :
        /\ img.alpha[p] > 0
        /\ is_dark_background(img.rgb[p][1], img.rgb[p][2], img.rgb[p][3])}

DarkMask(img) ==
    {p \in Pixels(img.w, img.h) :
        is_dark_background(img.rgb[p][1], img.rgb[p][2], img.rgb[p][3])}

CheckeredMask(img) ==
    {p \in Pixels(img.w, img.h) :
        is_checkered_bg(img.rgb[p][1], img.rgb[p][2], img.rgb[p][3])}

(***************************************************************************)
(* scipy.ndimage.label with its default structuring element: 4-connected   *)
(* components, numbered 1, 2, ... in raster order of their first pixel.    *)
(***************************************************************************)
\* Faulty variant: diagonal neighbours count as connected (8-connectivity).
Neighbours8(p) ==
    {<<p[1] + dy, p[2] + dx>> : dy \in {-1, 0, 1}, dx \in {-1, 0, 1}} \ {p}

Neighbours(p) ==
    {<<p[1] - 1, p[2]>>, <<p[1] + 1, p[2]>>, <<p[1], p[2] - 1>>, <<p[1], p[2] + 1>>}

RECURSIVE Grow(_, _)
Grow(S, mask) ==
    LET T == S \cup (mask \cap UNION {Neighbours(p) : p \in S})
    IN  IF T = S THEN S ELSE Grow(T, mask)

RasterIndex(p, w) == p[1] * w + p[2]

FirstPixel(mask, w) ==
    CHOOSE p \in mask : \A q \in mask : RasterIndex(p, w) <= RasterIndex(q, w)

RECURSIVE Components(_, _)
Components(mask, w) ==
    IF mask = {} THEN <<>>
    ELSE LET C == Grow({FirstPixel(mask, w)}, mask)
         IN  <<C>> \o Components(mask \ C, w)

\* The label array of ndimage.label(mask); Len(Components(mask, w)) is num.
Label(mask, w, h) ==
    LET comps == Components(mask, w)
    IN  [p \in Pixels(w, h) |->
            IF p \in mask
            THEN CHOOSE k \in 1 .. Len(comps) : p \in comps[k]
            ELSE 0]

(***************************************************************************)
(* The border scans.  labeled[i, j] on a numpy array of shape (h, w) needs *)
(* -h <= i < h and -w <= j < w, a negative index counting from the end;    *)
(* any other index raises IndexError.                                      *)
(***************************************************************************)
IndexOK(i, n) == -n <= i /\ i < n

Wrap(i, n) == IF i < 0 THEN i + n ELSE i

\* Faulty variant: the right-hand column is not scanned.
EdgeReadsNoRight(w, h) ==
    {<<0, x>> : x \in 0 .. w - 1} \cup {<<h - 1, x>> : x \in 0 .. w - 1}
    \cup {<<y, 0>> : y \in 0 .. h - 1}

\* Every index pair the two for loops read.
EdgeReads(w, h) ==
    {<<0, x>> : x \in 0 .. w - 1} \cup {<<h - 1, x>> : x \in 0 .. w - 1}
    \cup {<<y, 0>> : y \in 0 .. h - 1} \cup {<<y, w - 1>> : y \in 0 .. h - 1}

EdgeScanRaises(w, h) ==
    \E r \in EdgeReads(w, h) : ~(IndexOK(r[1], h) /\ IndexOK(r[2], w))

edge_labels(labeled, w, h) ==
    {labeled[<<Wrap(r[1], h), Wrap(r[2], w)>>] : r \in EdgeReads(w, h)} \ {0}

\* The pixels of (labeled == label) for a label of the set.
Regions(labeled, labels) == {p \in DOMAIN labeled : labeled[p] \in labels}

\* Faulty variant: one labelling pass over the union of the two masks.
bg_mask_merged(img) ==
    LET both == Label(DarkMask(img) \cup CheckeredMask(img), img.w, img.h)
    IN  Regions(both, edge_labels(both, img.w, img.h))

bg_mask(img) ==
    LET dark_labeled == Label(DarkMask(img), img.w, img.h)
        checkered_labeled == Label(CheckeredMask(img), img.w, img.h)
    IN  Regions(dark_labeled, edge_labels(dark_labeled, img.w, img.h))
        \cup Regions(checkered_labeled,
                     edge_labels(checkered_labeled, img.w, img.h))

(***************************************************************************)
(* The new alpha plane                                                     *)
(***************************************************************************)
BandLimit == 100

\* Faulty variant: the band is one row short.
TopBandShort(h) == Min2(BandLimit, h \div 4) - 1

\* range(min(100, height // 4)) is the rows 0 .. TopBand(h) - 1.
TopBand(h) == Min2(BandLimit, h \div 4)

new_alpha(img) ==
    LET bg == bg_mask(img)
        masked == [p \in Pixels(img.w, img.h) |->
                      IF p \in bg THEN 0 ELSE img.alpha[p]]
    IN  [p \in Pixels(img.w, img.h) |->
            IF /\ p[1] < TopBand(img.h)
               /\ is_dark_background(img.rgb[p][1], img.rgb[p][2], img.rgb[p][3])
            THEN 0
            ELSE masked[p]]

(***************************************************************************)
(* Stats.  pct is the exact quotient pct_num / pct_den; the script holds   *)
(* it as a float, which orders against 90 as the exact quotient does for   *)
(* every pixel count an image can have.                                    *)
(***************************************************************************)
WarnPct == 90

OpaqueCount(alpha) == Cardinality({p \in DOMAIN alpha : alpha[p] > 0})

\* Faulty variant: the warning is raised at 90 percent already.
StatsWarnAt90(original_opaque, new_opaque) ==
    LET removed == original_opaque - new_opaque
    IN  [original_opaque |-> original_opaque,
         new_opaque |-> new_opaque,
         removed |-> removed,
         pct_num |-> 100 * removed,
         pct_den |-> Max2(1, original_opaque),
         warning |-> 100 * removed >= WarnPct * Max2(1, original_opaque)]

Stats(original_opaque, new_opaque) ==
    LET removed == original_opaque - new_opaque
    IN  [original_opaque |-> original_opaque,
         new_opaque |-> new_opaque,
         removed |-> removed,
         pct_num |-> 100 * removed,
         pct_den |-> Max2(1, original_opaque),
         warning |-> 100 * removed > WarnPct * Max2(1, original_opaque)]

(***************************************************************************)
(* The input files of the model: a file is missing, undecodable, or holds  *)
(* an image of up to MaxW x MaxH pixels that is one fill colour with up to *)
(* MaxMarks pixels of other colours, over one of two alpha planes, or a    *)
(* tall image of TallW x TallH pixels with one dark pixel.                 *)
(***************************************************************************)
Neutral == <<200, 60, 60>>
DarkGray == <<30, 30, 30>>
LightGray == <<204, 204, 204>>

Fills == {Neutral, DarkGray}
MarkColours == {Neutral, DarkGray, LightGray}
AlphaLevels == <<255, 128, 0>>

RECURSIVE MarkSets(_, _)
MarkSets(P, k) ==
    IF k = 0 THEN {{}}
    ELSE LET smaller == MarkSets(P, k - 1)
         IN  smaller \cup {S \cup {p} : S \in smaller, p \in P}

AlphaPlanes(w, h) ==
    {[p \in Pixels(w, h) |-> 255],
     [p \in Pixels(w, h) |-> AlphaLevels[((p[2] + 2 * p[1]) % 3) + 1]]}

NoImage(kind) ==
    [kind |-> kind, w |-> 0, h |-> 0,
     rgb |-> [p \in Pixels(0, 0) |-> Neutral],
     alpha |-> [p \in Pixels(0, 0) |-> 0]]

ImagesOf(w, h, marks) ==
    UNION {
        {[kind |-> "image", w |-> w, h |-> h,
          rgb |-> [p \in Pixels(w, h) |-> IF p \in M THEN c[p] ELSE fill],
          alpha |-> a] :
            c \in [M -> MarkColours], fill \in Fills, a \in AlphaPlanes(w, h)} :
        M \in MarkSets(Pixels(w, h), marks)}

InputFiles(maxw, maxh, marks) ==
    {NoImage("missing"), NoImage("corrupt")}
    \cup UNION {ImagesOf(w, h, marks) : w \in 0 .. maxw, h \in 0 .. maxh}

\* Images tall enough for the cap of the top band to decide: neutral but for
\* one dark pixel in column 1, in a row within 3 of a quarter of the height.
TallFiles(w, h) ==
    {[kind |-> "image", w |-> w, h |-> h,
      rgb |-> [p \in Pixels(w, h) |-> IF p = <<y, 1>> THEN DarkGray ELSE Neutral],
      alpha |-> a] :
        y \in (h \div 4) - 3 .. (h \div 4) + 3, a \in AlphaPlanes(w, h)}

\* The files of a batch: one of each kind, small.
BatchFiles ==
    {NoImage("missing"), NoImage("corrupt")}
    \cup ImagesOf(2, 0, 0) \cup ImagesOf(2, 2, 0)

NoVerdict == [done |-> FALSE, dark |-> FALSE, checkered |-> FALSE]

Start(files) ==
    /\ disk = files
    /\ orig = files
    /\ idx = 1
    /\ success_count = 0
    /\ fail_count = 0
    /\ pc = "loop"
    /\ run = 1
    /\ outcome = [k \in 1 .. Len(files) |-> "pending"]
    /\ results = [k \in 1 .. Len(files) |-> <<>>]
    /\ px = <<0, 0, 0>>
    /\ verdict = NoVerdict

\* One sprite file, of any content of the model.
Init ==
    \E f \in InputFiles(MaxW, MaxH, MaxMarks) \cup TallFiles(TallW, TallH) :
        Start(<<f>>)

\* A list of up to MaxFiles sprite files.
InitBatch ==
    \E n \in 1 .. MaxFiles : \E files \in [1 .. n -> BatchFiles] : Start(files)

(***************************************************************************)
(* main(): one iteration of the for loop per action, by what happens to    *)
(* the file.                                                               *)
(***************************************************************************)
Looping == pc = "loop" /\ idx <= Len(disk)

\* os.path.exists(full_path) is false.
FileNotFound ==
    /\ Looping
    /\ disk[idx].kind = "missing"
    /\ fail_count' = fail_count + 1
    /\ outcome' = [outcome EXCEPT ![idx] = "not_found"]
    /\ idx' = idx + 1
    /\ UNCHANGED <<disk, orig, success_count, pc, run, results, px, verdict>>

\* Image.open(...).convert raises: fix_sprite_background returns False.
LoadError ==
    /\ Looping
    /\ disk[idx].kind = "corrupt"
    /\ fail_count' = fail_count + 1
    /\ outcome' = [outcome EXCEPT ![idx] = "load_error"]
    /\ idx' = idx + 1
    /\ UNCHANGED <<disk, orig, success_count, pc, run, results, px, verdict>>

\* A border scan indexes outside the label array: IndexError, which nothing
\* catches, ends main().
ScanRaises ==
    /\ Looping
    /\ disk[idx].kind = "image"
    /\ EdgeScanRaises(disk[idx].w, disk[idx].h)
    /\ outcome' = [outcome EXCEPT ![idx] = "scan_raised"]
    /\ pc' = "crashed"
    /\ UNCHANGED <<disk, orig, idx, success_count, fail_count, run, results,
                   px, verdict>>

\* result.save raises (the file or the disk refuses the write): nothing
\* catches it.  The file is left as it was or is left unreadable.
SaveRaises ==
    /\ Looping
    /\ disk[idx].kind = "image"
    /\ ~EdgeScanRaises(disk[idx].w, disk[idx].h)
    /\ \E left \in {"image", "corrupt"} :
          disk' = [disk EXCEPT ![idx].kind = left]
    /\ outcome' = [outcome EXCEPT ![idx] = "save_raised"]
    /\ pc' = "crashed"
    /\ UNCHANGED <<orig, idx, success_count, fail_count, run, results, px,
                   verdict>>

\* fix_sprite_background runs to its end and returns True.
FixSaved ==
    /\ Looping
    /\ disk[idx].kind = "image"
    /\ ~EdgeScanRaises(disk[idx].w, disk[idx].h)
    /\ LET img == disk[idx]
           alpha2 == new_alpha(img)
       IN  /\ disk' = [disk EXCEPT ![idx].alpha = alpha2]
           /\ results' = [results EXCEPT ![idx] = Append(@,
                  [original_alpha |-> img.alpha,
                   bg_mask |-> bg_mask(img),
                   new_alpha |-> alpha2,
                   stats |-> Stats(OpaqueCount(img.alpha), OpaqueCount(alpha2))])]
    /\ success_count' = success_count + 1
    /\ outcome' = [outcome EXCEPT ![idx] = "fixed"]
    /\ idx' = idx + 1
    /\ UNCHANGED <<orig, fail_count, pc, run, px, verdict>>

\* The loop is over: the COMPLETE line is printed.
Summary ==
    /\ pc = "loop"
    /\ idx > Len(disk)
    /\ pc' = "done"
    /\ UNCHANGED <<disk, orig, idx, success_count, fail_count, run, outcome,
                   results, px, verdict>>

\* The script, once through, is started again on the files as it left them.
Rerun ==
    /\ pc = "done"
    /\ run < MaxRuns
    /\ run' = run + 1
    /\ idx' = 1
    /\ success_count' = 0
    /\ fail_count' = 0
    /\ pc' = "loop"
    /\ outcome' = [k \in 1 .. Len(disk) |-> "pending"]
    /\ UNCHANGED <<disk, orig, results, px, verdict>>

Next ==
    \/ FileNotFound
    \/ LoadError
    \/ ScanRaises
    \/ SaveRaises
    \/ FixSaved
    \/ Summary
    \/ Rerun

Spec == Init /\ [][Next]_vars

SpecBatch == InitBatch /\ [][Next]_vars

(***************************************************************************)
(* The classifiers on their own: one call on one (r, g, b).                *)
(***************************************************************************)
Thresholds ==
    {0, 10, 14, 15, 24, 25, 26, 30, 34, 35, 39, 40, 41, 50,
     145, 146, 153, 160, 161, 162, 163, 170, 177, 178,
     195, 196, 197, 204, 211, 212, 213, 229, 230, 231, 238, 245, 246, 247, 255}

Clip(n) == IF n < 0 THEN 0 ELSE IF n > 255 THEN 255 ELSE n

\* Every triple over the threshold values, and every triple whose channels
\* are within spread of one another.
Triples(spread) ==
    (Thresholds \X Thresholds \X Thresholds)
    \cup {<<r, Clip(r + dg), Clip(r + db)>> :
            r \in 0 .. 255, dg \in -spread .. spread, db \in -spread .. spread}

InitClass ==
    /\ px \in Triples(Spread)
    /\ verdict = NoVerdict
    /\ disk = <<>>
    /\ orig = <<>>
    /\ idx = 1
    /\ success_count = 0
    /\ fail_count = 0
    /\ pc = "loop"
    /\ run = 1
    /\ outcome = <<>>
    /\ results = <<>>

Classify ==
    /\ ~verdict.done
    /\ verdict' = [done |-> TRUE,
                   dark |-> is_dark_background(px[1], px[2], px[3]),
                   checkered |-> is_checkered_bg(px[1], px[2], px[3])]
    /\ UNCHANGED <<disk, orig, idx, success_count, fail_count, pc, run,
                   outcome, results, px>>

NextClass == Classify

SpecClass == InitClass /\ [][NextClass]_vars

(***************************************************************************)
(* Vocabulary of the properties.  A border-touching component is stated    *)
(* here by a flood from the border pixels of a mask, not by labelling.     *)
(***************************************************************************)
Border(w, h) == {p \in Pixels(w, h) : p[1] \in {0, h - 1} \/ p[2] \in {0, w - 1}}

Adjacent4(p, q) == Abs(p[1] - q[1]) + Abs(p[2] - q[2]) = 1

Diagonal(p, q) == Abs(p[1] - q[1]) = 1 /\ Abs(p[2] - q[2]) = 1

RECURSIVE Flood(_, _)
Flood(S, mask) ==
    LET T == S \cup {q \in mask \ S : \E p \in S : Adjacent4(p, q)}
    IN  IF T = S THEN S ELSE Flood(T, mask)

BorderConnected(mask, w, h) == Flood(mask \cap Border(w, h), mask)

IsDark(img, p) == is_dark_background(img.rgb[p][1], img.rgb[p][2], img.rgb[p][3])

IsCheckered(img, p) == is_checkered_bg(img.rgb[p][1], img.rgb[p][2], img.rgb[p][3])

DarkPixels(img) == {p \in Pixels(img.w, img.h) : IsDark(img, p)}

CheckeredPixels(img) == {p \in Pixels(img.w, img.h) : IsCheckered(img, p)}

DarkBackground(img) == BorderConnected(DarkPixels(img), img.w, img.h)

CheckeredBackground(img) == BorderConnected(CheckeredPixels(img), img.w, img.h)

\* Row y is one of the rows 0 .. min(100, floor(h / 4)) - 1.
InTopBand(y, h) == y < 100 /\ 4 * (y + 1) <= h

\* <<k, n>>: the n-th completed fix of file k.
Fixes == UNION {{<<k, n>> : n \in 1 .. Len(results[k])} : k \in 1 .. Len(disk)}

(***************************************************************************)
(* Properties of fix_sprite_background                                     *)
(***************************************************************************)

\* C1: after a fix, every pixel that is neither in a 4-connected dark or
\* checkered component containing a border pixel, nor a dark pixel of the
\* top band, has exactly the alpha it had before; so a dark blob outside the
\* top band that touches a border-touching dark component only diagonally
\* stays as opaque as it was.
C1_OtherPixelsKeepAlpha ==
    \A f \in Fixes :
        LET img == disk[f[1]]
            r == results[f[1]][f[2]]
            erasable == DarkBackground(img) \cup CheckeredBackground(img)
                        \cup {p \in DarkPixels(img) : InTopBand(p[1], img.h)}
        IN  \A p \in Pixels(img.w, img.h) \ erasable :
                r.new_alpha[p] = r.original_alpha[p]

\* A fix left opaque a dark pixel outside the top band that is diagonal to a
\* pixel of a border-touching dark component and not connected to it.
C1_Witness ==
    \E f \in Fixes :
        LET img == disk[f[1]]
            r == results[f[1]][f[2]]
            background == DarkBackground(img)
        IN  \E p \in DarkPixels(img) \ background :
                /\ ~InTopBand(p[1], img.h)
                /\ \E q \in background : Diagonal(p, q)
                /\ r.original_alpha[p] > 0
                /\ r.new_alpha[p] = r.original_alpha[p]

\* C2: after a fix of an image with W >= 1 and H >= 1, every pixel of a
\* 4-connected component of the dark mask or of the checkered mask that
\* contains a border pixel has alpha 0, whatever its alpha was.
C2_BorderComponentsErased ==
    \A f \in Fixes :
        LET img == disk[f[1]]
            r == results[f[1]][f[2]]
        IN  (img.w >= 1 /\ img.h >= 1) =>
                \A p \in DarkBackground(img) \cup CheckeredBackground(img) :
                    r.new_alpha[p] = 0

\* A fix erased an opaque pixel that is not on the border itself but belongs
\* to a border-touching component.
C2_Witness ==
    \E f \in Fixes :
        LET img == disk[f[1]]
            r == results[f[1]][f[2]]
        IN  \E p \in (DarkBackground(img) \cup CheckeredBackground(img))
                        \ Border(img.w, img.h) :
                r.original_alpha[p] > 0 /\ r.new_alpha[p] = 0

\* C6: a second fix of a file's own output computes the same Background
\* Mask as the first and leaves every alpha as the first fix produced it.
C6_Idempotent ==
    \A f \in Fixes :
        f[2] >= 2 =>
            LET first == results[f[1]][1]
                again == results[f[1]][f[2]]
            IN  /\ again.bg_mask = first.bg_mask
                /\ again.new_alpha = first.new_alpha

\* A file was fixed twice, and the first fix had erased an opaque pixel.
C6_Witness ==
    \E f \in Fixes :
        /\ f[2] = 2
        /\ \E p \in results[f[1]][1].bg_mask :
              /\ results[f[1]][1].original_alpha[p] > 0
              /\ results[f[1]][2].original_alpha[p] = 0

\* C7: after a fix, every dark pixel in rows 0 .. min(100, floor(H/4)) - 1
\* has alpha 0, also when it is in no border-touching component; no pixel's
\* alpha is raised, and a pixel of the Background Mask is at 0.
C7_TopBandSweep ==
    \A f \in Fixes :
        LET img == disk[f[1]]
            r == results[f[1]][f[2]]
        IN  \A p \in Pixels(img.w, img.h) :
                /\ (IsDark(img, p) /\ InTopBand(p[1], img.h)) => r.new_alpha[p] = 0
                /\ r.new_alpha[p] <= r.original_alpha[p]
                /\ p \in r.bg_mask => r.new_alpha[p] = 0

\* A fix erased an opaque dark pixel of the top band that is outside the
\* Background Mask.
C7_Witness ==
    \E f \in Fixes :
        LET img == disk[f[1]]
            r == results[f[1]][f[2]]
        IN  \E p \in DarkPixels(img) \ r.bg_mask :
                /\ InTopBand(p[1], img.h)
                /\ r.original_alpha[p] > 0
                /\ r.new_alpha[p] = 0

\* C10: connectivity is computed per mask and only the selected regions are
\* OR-ed: the Background Mask is the border-touching dark components united
\* with the border-touching checkered components, so a dark pixel outside
\* the top band whose dark component has no border pixel keeps its alpha
\* even next to a border-touching checkered component, and a checkered
\* pixel whose checkered component has no border pixel keeps its alpha even
\* next to a border-touching dark component.
C10_MasksLabelledSeparately ==
    \A f \in Fixes :
        LET img == disk[f[1]]
            r == results[f[1]][f[2]]
            dark == DarkBackground(img)
            checkered == CheckeredBackground(img)
        IN  /\ r.bg_mask = dark \cup checkered
            /\ \A p \in DarkPixels(img) \ dark :
                  ~InTopBand(p[1], img.h) => r.new_alpha[p] = r.original_alpha[p]
            /\ \A p \in CheckeredPixels(img) \ checkered :
                  r.new_alpha[p] = r.original_alpha[p]

\* A fix kept an opaque dark pixel that is 4-adjacent to a pixel of a
\* border-touching checkered component.
C10_Witness ==
    \E f \in Fixes :
        LET img == disk[f[1]]
            r == results[f[1]][f[2]]
            checkered == CheckeredBackground(img)
        IN  \E p \in DarkPixels(img) \ DarkBackground(img) :
                /\ \E q \in checkered : Adjacent4(p, q)
                /\ r.original_alpha[p] > 0
                /\ r.new_alpha[p] = r.original_alpha[p]

\* C9: the report of a fix has original = the pixels with alpha > 0 before,
\* new = those with alpha > 0 after, removed = original - new >= 0 and
\* percent = 100 * removed / original; the warning is raised exactly when
\* removed / original > 0.90; with or without it the file holds the computed
\* alpha and the call counts as a success; 12 opaque before and 6 after give
\* 50 percent and no warning.
C9_StatsReport ==
    /\ \A f \in Fixes :
          LET r == results[f[1]][f[2]]
              all == Cardinality(DOMAIN r.original_alpha)
              before == all - Cardinality({p \in DOMAIN r.original_alpha :
                                              r.original_alpha[p] = 0})
              after == all - Cardinality({p \in DOMAIN r.new_alpha :
                                              r.new_alpha[p] = 0})
          IN  /\ r.stats.original_opaque = before
              /\ r.stats.new_opaque = after
              /\ r.stats.removed = before - after
              /\ r.stats.removed >= 0
              /\ before > 0 =>
                    r.stats.pct_num * before = 100 * r.stats.removed * r.stats.pct_den
              /\ r.stats.warning <=> (10 * r.stats.removed > 9 * before)
    /\ \A k \in 1 .. Len(disk) :
          outcome[k] = "fixed" =>
              /\ results[k] # <<>>
              /\ disk[k].kind = "image"
              /\ disk[k].alpha = results[k][Len(results[k])].new_alpha
    /\ pc = "loop" =>
          success_count = Cardinality({k \in 1 .. Len(disk) : outcome[k] = "fixed"})
    /\ Stats(12, 6).pct_num = 50 * Stats(12, 6).pct_den
    /\ ~Stats(12, 6).warning

\* A fix that raised the warning was saved and counted as a success.
C9_Witness ==
    \E f \in Fixes :
        LET r == results[f[1]][f[2]]
        IN  /\ r.stats.warning
            /\ r.stats.removed > 0
            /\ outcome[f[1]] = "fixed"
            /\ disk[f[1]].alpha = r.new_alpha
            /\ success_count >= 1

\* C4: an image with W = 0 or H = 0 is processed without a fault: the border
\* scans raise nothing, the Background Mask is empty and the alpha plane is
\* left as it was.
C4_DegenerateNoFault ==
    \A k \in 1 .. Len(disk) :
        (orig[k].kind = "image" /\ (orig[k].w = 0 \/ orig[k].h = 0)) =>
            /\ outcome[k] # "scan_raised"
            /\ \A n \in 1 .. Len(results[k]) :
                  /\ results[k][n].bg_mask = {}
                  /\ results[k][n].new_alpha = results[k][n].original_alpha

\* C5: in main(), a failure on one file at any stage (missing, undecodable,
\* an error while processing or saving) is recorded as that file's failure
\* and the driver goes on to the remaining paths and the summary.
C5_FailuresIsolated ==
    /\ pc # "crashed"
    /\ \A k \in 1 .. Len(disk) :
          outcome[k] \in {"pending", "fixed", "not_found", "load_error"}
    /\ pc = "loop" =>
          fail_count = Cardinality({k \in 1 .. Len(disk) :
                                      outcome[k] \in {"not_found", "load_error"}})

(***************************************************************************)
(* Properties of the classifiers                                           *)
(***************************************************************************)
ReferenceGrays == {204, 238, 153, 170}

Near(ref, tol) == \A c \in 1 .. 3 : px[c] - ref \in -tol .. tol

\* C3, as amended: is_checkered_bg is true exactly for the (R,G,B) whose
\* three channels are each strictly less than 8 away (within 7) from the
\* same reference gray among 204, 238, 153, 170; so (204,204,204) and
\* (211,211,211) are checkered, (212,212,212) and (213,213,213) are not.
C3_CheckeredWithin7 ==
    verdict.done =>
        /\ verdict.checkered <=> \E ref \in ReferenceGrays : Near(ref, 7)
        /\ px \in {<<204, 204, 204>>, <<211, 211, 211>>} => verdict.checkered
        /\ px \in {<<212, 212, 212>>, <<213, 213, 213>>} => ~verdict.checkered

\* The classifier was called on (212,212,212) and said no.
C3_Witness ==
    verdict.done /\ px = <<212, 212, 212>> /\ ~verdict.checkered

\* C3, as stated: is_checkered_bg is true exactly for the (R,G,B) whose
\* three channels are each within 8, inclusive, of the same reference gray;
\* so (204,204,204) and (212,212,212) are checkered and (213,213,213) is not.
C3_CheckeredWithin8 ==
    verdict.done =>
        /\ verdict.checkered <=> \E ref \in ReferenceGrays : Near(ref, 8)
        /\ px \in {<<204, 204, 204>>, <<212, 212, 212>>} => verdict.checkered
        /\ px = <<213, 213, 213>> => ~verdict.checkered

\* C8: is_dark_background is true exactly when all three channels are below
\* 25, or the largest is below 40 and R, G and G, B differ by less than 10;
\* (0,0,0) and (30,30,30) are dark, (255,255,255) and (50,10,10) are not.
C8_DarkRule ==
    verdict.done =>
        /\ verdict.dark <=>
              \/ \A c \in 1 .. 3 : px[c] <= 24
              \/ /\ \A c \in 1 .. 3 : px[c] <= 39
                 /\ px[1] - px[2] \in -9 .. 9
                 /\ px[2] - px[3] \in -9 .. 9
        /\ px \in {<<0, 0, 0>>, <<30, 30, 30>>} => verdict.dark
        /\ px \in {<<255, 255, 255>>, <<50, 10, 10>>} => ~verdict.dark

\* The classifier was called on (30,30,30), which only the near-gray rule
\* accepts, and said yes.
C8_Witness ==
    verdict.done /\ px = <<30, 30, 30>> /\ verdict.dark

====
